---------------------------- MODULE Spec2Model ----------------------------
(***************************************************************************)
(* Model of shell/browser/api/electron_api_service_worker_main.cc:         *)
(* the ServiceWorkerMain proxy, the process-wide VersionIdMap registry,    *)
(* and the content::ServiceWorkerContext host as far as the proxy          *)
(* consults it.                                                            *)
(***************************************************************************)
EXTENDS Integers, Sequences, FiniteSets, TLC

(* ------------------------------ bounds --------------------------------- *)
NumIds == 1
MaxProxies == 2
MaxPromises == 2

VersionIds == 1..NumIds
(* the model follows one content::StoragePartition; `host' is its          *)
(* ServiceWorkerContext                                                    *)
Partitions == {"default_partition"}
ProxyIds == 1..MaxProxies
PromiseIds == 1..MaxPromises

(* ServiceWorkerKey(version_id, storage_partition) *)
ServiceWorkerKey == [version_id : VersionIds, storage_partition : Partitions]

NullProxy == 0
NullPromise == 0
(* std::optional / std::unique_ptr of ServiceWorkerVersionBaseInfo: <<>> is *)
(* empty, <<info>> holds info; the proxy reads only info.scope              *)
NullInfo == <<>>

(* ------------------------------ tokens --------------------------------- *)
HexLower == {"0", "1", "2", "3", "4", "5", "6", "7", "8", "9",
             "a", "b", "c", "d", "e", "f"}
UuidLength == 36
HyphenPositions == {9, 14, 19, 24}

UuidA ==
  <<"1","2","3","e","4","5","6","7","-","e","8","9","b","-","4","2","d","3",
    "-","a","4","5","6","-","4","2","6","6","1","4","1","7","4","0","0","0">>
UuidB ==
  <<"0","0","0","0","0","0","0","0","-","0","0","0","0","-","4","0","0","0",
    "-","8","0","0","0","-","0","0","0","0","0","0","0","0","0","0","0","1">>
UuidUpper ==
  <<"1","2","3","E","4","5","6","7","-","E","8","9","B","-","4","2","D","3",
    "-","A","4","5","6","-","4","2","6","6","1","4","1","7","4","0","0","0">>
UuidNoHyphens ==
  <<"1","2","3","e","4","5","6","7","e","8","9","b","4","2","d","3",
    "a","4","5","6","4","2","6","6","1","4","1","7","4","0","0","0">>
UuidShiftedHyphen ==
  <<"1","2","3","e","4","5","6","-","7","e","8","9","b","-","4","2","d","3",
    "-","a","4","5","6","-","4","2","6","6","1","4","1","7","4","0","0","0">>
NotAUuid == <<"n","o","t","-","a","-","u","u","i","d">>

(* the strings a script passes to _finishExternalRequest *)
TokenInputs ==
  <<UuidA, UuidB, UuidUpper, UuidNoHyphens, UuidShiftedHyphen, NotAUuid, <<>> >>

(* ParseLowercase without the lowercase requirement *)
ParseAnyCase(s) ==
  IF /\ Len(s) = UuidLength
     /\ \A i \in 1..Len(s) :
          IF i \in HyphenPositions THEN s[i] = "-"
          ELSE s[i] \in HexLower \cup {"A", "B", "C", "D", "E", "F"}
  THEN [is_valid |-> TRUE, text |-> s]
  ELSE [is_valid |-> FALSE, text |-> <<>>]

(* base::Uuid::ParseLowercase: a valid Uuid holding the text when the text *)
(* is 36 characters, hyphens at 9, 14, 19, 24 and lowercase hex elsewhere; *)
(* the invalid (empty) Uuid otherwise.                                     *)
ParseLowercase(s) ==
  IF /\ Len(s) = UuidLength
     /\ \A i \in 1..Len(s) :
          IF i \in HyphenPositions THEN s[i] = "-" ELSE s[i] \in HexLower
  THEN [is_valid |-> TRUE, text |-> s]
  ELSE [is_valid |-> FALSE, text |-> <<>>]

(* ------------------------------- state --------------------------------- *)
VARIABLES
  host,        \* content::ServiceWorkerContext, per key: the live version
  versionMap,  \* GetVersionIdMap(): ServiceWorkerKey -> ServiceWorkerMain*
  obj,         \* the ServiceWorkerMain objects ever allocated
  promises,    \* the gin_helper::Promise<void> objects ever created
  startReqs,   \* StartWorkerForScope requests whose callbacks are pending
  last         \* the most recent call: its arguments, result, host calls

vars == <<host, versionMap, obj, promises, startReqs, last>>

FreeObj ==
  [alloc |-> "free",
   key |-> [version_id |-> 0, storage_partition |-> "none"],
   version_destroyed |-> FALSE,
   version_info |-> NullInfo,
   remote |-> FALSE,
   pinned |-> FALSE,
   start_worker_promise |-> NullPromise]

NoCall == [op |-> "none", proxy |-> NullProxy, ret |-> 0, error |-> "none",
           calls |-> <<>>]

Allocated == {p \in ProxyIds : obj[p].alloc # "free"}
Heap == {p \in ProxyIds : obj[p].alloc = "live"}

(* ------------------------------- host ---------------------------------- *)
(* wrapper->GetLiveVersion(version_id) != nullptr *)
GetLiveVersion(h, k) == h[k].live

(* version->GetInfo(), or std::nullopt *)
GetLiveVersionInfo(h, k) ==
  IF GetLiveVersion(h, k)
  THEN << [scope |-> h[k].scope] >>
  ELSE NullInfo

IsLiveStartingServiceWorker(h, k) == h[k].live /\ h[k].status = "starting"
IsLiveRunningServiceWorker(h, k) == h[k].live /\ h[k].status = "running"

(* the redundancy test left out *)
is_redundantNever(h, k) == FALSE

(* live_version->is_redundant() *)
is_redundant(h, k) == h[k].redundant

(* ----------------------------- registry -------------------------------- *)
(* a lookup that never finds the entry *)
FromServiceWorkerKeyMiss(vm, k) == NullProxy

FromServiceWorkerKey(vm, k) == vm[k]

(* ------------------------ destroy / invalidate ------------------------- *)
(* Destroy() without the InvalidateVersionInfo() call *)
DestroyKeepInfo(o, vm, p) ==
  [obj |-> [o EXCEPT ![p].version_destroyed = TRUE,
                     ![p].pinned = FALSE],
   map |-> [vm EXCEPT ![o[p].key] = NullProxy]]

(* Destroy() without Unpin() *)
DestroyKeepPin(o, vm, p) ==
  [obj |-> [o EXCEPT ![p].version_destroyed = TRUE,
                     ![p].version_info = NullInfo],
   map |-> [vm EXCEPT ![o[p].key] = NullProxy]]

(* Destroy() without erase(key_) *)
DestroyKeepEntry(o, vm, p) ==
  [obj |-> [o EXCEPT ![p].version_destroyed = TRUE,
                     ![p].version_info = NullInfo,
                     ![p].pinned = FALSE],
   map |-> vm]

(* Destroy(): the flag, InvalidateVersionInfo() (which now only resets the *)
(* snapshot), erase(key_), Unpin().                                        *)
Destroy(o, vm, p) ==
  [obj |-> [o EXCEPT ![p].version_destroyed = TRUE,
                     ![p].version_info = NullInfo,
                     ![p].pinned = FALSE],
   map |-> [vm EXCEPT ![o[p].key] = NullProxy]]

(* InvalidateVersionInfo without the return on version_destroyed_ *)
InvalidateVersionInfoNoGuard(o, vm, h, p) ==
  LET reset == [o EXCEPT ![p].version_info = NullInfo]
      info  == GetLiveVersionInfo(h, o[p].key)
  IN IF info # NullInfo
     THEN [obj |-> [reset EXCEPT ![p].version_info = info], map |-> vm]
     ELSE Destroy(reset, vm, p)

(* ServiceWorkerMain::InvalidateVersionInfo *)
InvalidateVersionInfo(o, vm, h, p) ==
  LET reset == [o EXCEPT ![p].version_info = NullInfo]
      info  == GetLiveVersionInfo(h, o[p].key)
  IN IF o[p].version_destroyed
     THEN [obj |-> reset, map |-> vm]
     ELSE IF info # NullInfo
          THEN [obj |-> [reset EXCEPT ![p].version_info = info], map |-> vm]
          ELSE Destroy(reset, vm, p)

(* ------------------------------- Init ---------------------------------- *)
Init ==
  /\ host = [k \in ServiceWorkerKey |->
               [live |-> FALSE, redundant |-> FALSE, status |-> "stopped",
                scope |-> k.version_id]]
  /\ versionMap = [k \in ServiceWorkerKey |-> NullProxy]
  /\ obj = [p \in ProxyIds |-> FreeObj]
  /\ promises = [f \in PromiseIds |-> "unused"]
  /\ startReqs = [p \in ProxyIds |-> 0]
  /\ last = NoCall

(* --------------------------- host behaviour ---------------------------- *)
(* ServiceWorkerContextCore::AddLiveVersion: the version is loaded, also   *)
(* again after an earlier RemoveLiveVersion; a redundant version is not.   *)
HostAddLiveVersion(k) ==
  /\ ~host[k].live
  /\ ~host[k].redundant
  /\ host' = [host EXCEPT ![k].live = TRUE, ![k].status = "stopped"]
  /\ last' = NoCall
  /\ UNCHANGED <<versionMap, obj, promises, startReqs>>

HostRemoveLiveVersion(k) ==
  /\ host[k].live
  /\ host' = [host EXCEPT ![k].live = FALSE, ![k].status = "stopped"]
  /\ last' = NoCall
  /\ UNCHANGED <<versionMap, obj, promises, startReqs>>

HostSetRunningStatus(k, s) ==
  /\ host[k].live
  /\ host[k].status # s
  /\ host' = [host EXCEPT ![k].status = s]
  /\ last' = NoCall
  /\ UNCHANGED <<versionMap, obj, promises, startReqs>>

HostSetRedundant(k) ==
  /\ host[k].live
  /\ ~host[k].redundant
  /\ host' = [host EXCEPT ![k].redundant = TRUE]
  /\ last' = NoCall
  /\ UNCHANGED <<versionMap, obj, promises, startReqs>>

(* ---------------------------- operations ------------------------------- *)
NewProxy == CHOOSE p \in ProxyIds : obj[p].alloc = "free" /\
                \A q \in ProxyIds : q < p => obj[q].alloc # "free"

(* ServiceWorkerMain::From *)
From(k) ==
  LET service_worker == FromServiceWorkerKey(versionMap, k) IN
  IF service_worker # NullProxy
  THEN /\ last' = [NoCall EXCEPT !.op = "From", !.ret = service_worker]
       /\ UNCHANGED <<host, versionMap, obj, promises, startReqs>>
  ELSE IF ~GetLiveVersion(host, k) \/ is_redundant(host, k)
  THEN /\ last' = [NoCall EXCEPT !.op = "From", !.ret = NullProxy,
                                 !.calls = << <<"GetLiveVersion", k>> >>]
       /\ UNCHANGED <<host, versionMap, obj, promises, startReqs>>
  ELSE /\ \E p \in ProxyIds : obj[p].alloc = "free"
       /\ LET p == NewProxy
              \* constructor: emplace(key_, this); InvalidateVersionInfo()
              o1 == [obj EXCEPT ![p] = [FreeObj EXCEPT !.alloc = "live",
                                                       !.key = k]]
              m1 == IF versionMap[k] = NullProxy
                    THEN [versionMap EXCEPT ![k] = p] ELSE versionMap
              c  == InvalidateVersionInfo(o1, m1, host, p)
          IN /\ obj' = [c.obj EXCEPT ![p].pinned = TRUE]  \* handle->Pin()
             /\ versionMap' = c.map
             /\ last' = [NoCall EXCEPT !.op = "From", !.ret = p,
                           !.calls = << <<"GetLiveVersion", k>>,
                                        <<"GetLiveVersion", k>> >>]
       /\ UNCHANGED <<host, promises, startReqs>>

(* ServiceWorkerMain::FromVersionID *)
FromVersionID(k) ==
  /\ last' = [NoCall EXCEPT !.op = "FromVersionID",
                            !.ret = FromServiceWorkerKey(versionMap, k)]
  /\ UNCHANGED <<host, versionMap, obj, promises, startReqs>>

(* OnRunningStatusChanged without the remote_.reset() *)
OnRunningStatusChangedKeepRemote(p) ==
  /\ p \in Heap
  /\ LET c == InvalidateVersionInfo(obj, versionMap, host, p)
     IN obj' = c.obj /\ versionMap' = c.map
  /\ last' = [NoCall EXCEPT !.op = "OnRunningStatusChanged"]
  /\ UNCHANGED <<host, promises, startReqs>>

(* ServiceWorkerMain::OnRunningStatusChanged *)
OnRunningStatusChanged(p) ==
  /\ p \in Heap
  /\ LET c == InvalidateVersionInfo(obj, versionMap, host, p)
         k == obj[p].key
         drop == /\ c.obj[p].remote
                 /\ ~IsLiveStartingServiceWorker(host, k)
                 /\ ~IsLiveRunningServiceWorker(host, k)
     IN /\ obj' = IF drop THEN [c.obj EXCEPT ![p].remote = FALSE] ELSE c.obj
        /\ versionMap' = c.map
  /\ last' = [NoCall EXCEPT !.op = "OnRunningStatusChanged"]
  /\ UNCHANGED <<host, promises, startReqs>>

(* OnVersionRedundant handled like a status change *)
OnVersionRedundantRefresh(p) ==
  /\ p \in Heap
  /\ host[obj[p].key].redundant
  /\ LET c == InvalidateVersionInfo(obj, versionMap, host, p)
     IN obj' = c.obj /\ versionMap' = c.map
  /\ last' = [NoCall EXCEPT !.op = "OnVersionRedundant"]
  /\ UNCHANGED <<host, promises, startReqs>>

(* ServiceWorkerMain::OnVersionRedundant, sent by the host once the        *)
(* version has become redundant                                            *)
OnVersionRedundant(p) ==
  /\ p \in Heap
  /\ host[obj[p].key].redundant
  /\ LET c == Destroy(obj, versionMap, p)
     IN obj' = c.obj /\ versionMap' = c.map
  /\ last' = [NoCall EXCEPT !.op = "OnVersionRedundant"]
  /\ UNCHANGED <<host, promises, startReqs>>

(* ServiceWorkerMain::~ServiceWorkerMain: the garbage collector finalizes  *)
(* a wrapper that is not pinned; Destroy() runs, then the members die      *)
(* (remote_, start_worker_promise_, weak_factory_).                        *)
Finalize(p) ==
  /\ p \in Heap
  /\ ~obj[p].pinned
  /\ LET c == Destroy(obj, versionMap, p)
     IN /\ obj' = [c.obj EXCEPT ![p].alloc = "finalized",
                                ![p].remote = FALSE,
                                ![p].start_worker_promise = NullPromise]
        /\ versionMap' = c.map
  /\ last' = [NoCall EXCEPT !.op = "Finalize"]
  /\ UNCHANGED <<host, promises, startReqs>>

(* GetRendererApi binding without asking whether the worker runs *)
GetRendererApiUnchecked(o, h, p) ==
  IF o[p].remote
  THEN [obj |-> o, api |-> TRUE, calls |-> <<>>]
  ELSE [obj |-> [o EXCEPT ![p].remote = TRUE], api |-> TRUE,
        calls |-> << <<"GetRemoteAssociatedInterfaces", o[p].key>> >>]

(* ServiceWorkerMain::GetRendererApi: the object after the call, whether a *)
(* remote is returned, and the host calls made                             *)
GetRendererApi(o, h, p) ==
  IF o[p].remote
  THEN [obj |-> o, api |-> TRUE, calls |-> <<>>]
  ELSE IF ~IsLiveRunningServiceWorker(h, o[p].key)
  THEN [obj |-> o, api |-> FALSE,
        calls |-> << <<"IsLiveRunningServiceWorker", o[p].key>> >>]
  ELSE [obj |-> [o EXCEPT ![p].remote = TRUE], api |-> TRUE,
        calls |-> << <<"IsLiveRunningServiceWorker", o[p].key>>,
                     <<"GetRemoteAssociatedInterfaces", o[p].key>> >>]

(* ServiceWorkerMain::Send; serializable: gin::ConvertFromV8 succeeds *)
Send(p, serializable) ==
  /\ p \in Heap
  /\ IF ~serializable
     THEN /\ last' = [NoCall EXCEPT !.op = "Send", !.proxy = p,
                                    !.error = "Failed to serialize arguments"]
          /\ obj' = obj
     ELSE LET g == GetRendererApi(obj, host, p)
          IN /\ obj' = g.obj
             /\ last' = [NoCall EXCEPT !.op = "Send", !.proxy = p,
                           !.calls = IF g.api
                                     THEN Append(g.calls, <<"Message", p>>)
                                     ELSE g.calls]
  /\ UNCHANGED <<host, versionMap, promises, startReqs>>

(* the destroyed test left out *)
IsDestroyedNever(o, p) == FALSE

(* ServiceWorkerMain::IsDestroyed, and the `if (version_destroyed_)' that   *)
(* opens StartWorker, StartExternalRequest, FinishExternalRequest, ScopeURL *)
IsDestroyed(o, p) == o[p].version_destroyed

(* the in-flight test left out *)
HasStartWorkerPromiseNever(o, p) == FALSE

(* `if (start_worker_promise_)' in StartWorker *)
HasStartWorkerPromise(o, p) == o[p].start_worker_promise # NullPromise

(* ServiceWorkerMain::ScopeURL: GURL::EmptyGURL() (0) when destroyed *)
ScopeURL(o, p) ==
  IF IsDestroyed(o, p) THEN 0
  ELSE IF o[p].version_info = NullInfo THEN "null dereference"
  ELSE o[p].version_info[1].scope

(* ServiceWorkerMain::GetStorageKey: version_info()->scope, unchecked *)
GetStorageKey(o, p) ==
  IF o[p].version_info = NullInfo THEN "null dereference"
  ELSE o[p].version_info[1].scope

NewPromise == CHOOSE f \in PromiseIds : promises[f] = "unused" /\
                \A g \in PromiseIds : g < f => promises[g] # "unused"

(* ServiceWorkerMain::StartWorker *)
StartWorker(p) ==
  /\ p \in Heap
  /\ IF IsDestroyed(obj, p)
     THEN /\ \E f \in PromiseIds : promises[f] = "unused"
          /\ promises' = [promises EXCEPT
                            ![NewPromise] = "ServiceWorkerMain is destroyed"]
          /\ last' = [NoCall EXCEPT !.op = "StartWorker", !.proxy = p,
                                    !.ret = NewPromise]
          /\ UNCHANGED <<obj, startReqs>>
     ELSE IF HasStartWorkerPromise(obj, p)
     THEN /\ last' = [NoCall EXCEPT !.op = "StartWorker", !.proxy = p,
                                    !.ret = obj[p].start_worker_promise]
          /\ UNCHANGED <<obj, promises, startReqs>>
     ELSE /\ \E f \in PromiseIds : promises[f] = "unused"
          /\ promises' = [promises EXCEPT ![NewPromise] = "pending"]
          /\ obj' = [obj EXCEPT ![p].start_worker_promise = NewPromise]
          /\ startReqs' = [startReqs EXCEPT ![p] = @ + 1]
          /\ last' = [NoCall EXCEPT !.op = "StartWorker", !.proxy = p,
                        !.ret = NewPromise,
                        !.calls = << <<"StartWorkerForScope",
                                       ScopeURL(obj, p),
                                       GetStorageKey(obj, p)>> >>]
  /\ UNCHANGED <<host, versionMap>>

(* the callbacks settling the promise without start_worker_promise_.reset() *)
DidStartWorkerKeepSlot(p, ok) ==
  /\ startReqs[p] > 0
  /\ startReqs' = [startReqs EXCEPT ![p] = @ - 1]
  /\ IF obj[p].alloc = "live" /\ obj[p].start_worker_promise # NullPromise
     THEN /\ promises' = [promises EXCEPT ![obj[p].start_worker_promise] =
                IF ok THEN "resolved" ELSE "Failed to start service worker."]
          /\ obj' = obj
          /\ last' = [NoCall EXCEPT !.op = IF ok THEN "DidStartWorkerForScope"
                                                ELSE "DidStartWorkerFail"]
     ELSE /\ last' = [NoCall EXCEPT !.op = "DroppedStartCallback"]
          /\ UNCHANGED <<obj, promises>>
  /\ UNCHANGED <<host, versionMap>>

(* The host runs one of the two callbacks of a StartWorkerForScope request. *)
(* They are bound to weak_factory_.GetWeakPtr(): nothing runs once the      *)
(* proxy is finalized.  DidStartWorkerForScope / DidStartWorkerFail settle  *)
(* start_worker_promise_ and reset it.                                      *)
DidStartWorker(p, ok) ==
  /\ startReqs[p] > 0
  /\ startReqs' = [startReqs EXCEPT ![p] = @ - 1]
  /\ IF obj[p].alloc = "live" /\ obj[p].start_worker_promise # NullPromise
     THEN /\ promises' = [promises EXCEPT ![obj[p].start_worker_promise] =
                IF ok THEN "resolved" ELSE "Failed to start service worker."]
          /\ obj' = [obj EXCEPT ![p].start_worker_promise = NullPromise]
          /\ last' = [NoCall EXCEPT !.op = IF ok THEN "DidStartWorkerForScope"
                                                ELSE "DidStartWorkerFail"]
     ELSE /\ last' = [NoCall EXCEPT !.op = "DroppedStartCallback"]
          /\ UNCHANGED <<obj, promises>>
  /\ UNCHANGED <<host, versionMap>>

(* FinishExternalRequest parsing the token before the destroyed test *)
FinishExternalRequestParseFirst(p, i) ==
  /\ p \in Heap
  /\ LET request_uuid == ParseLowercase(TokenInputs[i])
         c == [NoCall EXCEPT !.op = "FinishExternalRequest", !.proxy = p,
                             !.ret = i]
     IN last' =
          IF ~request_uuid.is_valid
          THEN [c EXCEPT !.error = "Invalid external request UUID"]
          ELSE IF IsDestroyed(obj, p)
          THEN [c EXCEPT !.error = "ServiceWorkerMain is destroyed"]
          ELSE [c EXCEPT !.calls = << <<"FinishedExternalRequest",
                                        obj[p].key.version_id,
                                        request_uuid.text>> >>]
  /\ UNCHANGED <<host, versionMap, obj, promises, startReqs>>

(* ServiceWorkerMain::FinishExternalRequest; i indexes the string passed *)
FinishExternalRequest(p, i) ==
  /\ p \in Heap
  /\ LET request_uuid == ParseLowercase(TokenInputs[i])
         c == [NoCall EXCEPT !.op = "FinishExternalRequest", !.proxy = p,
                             !.ret = i]
     IN last' =
          IF IsDestroyed(obj, p)
          THEN [c EXCEPT !.error = "ServiceWorkerMain is destroyed"]
          ELSE IF ~request_uuid.is_valid
          THEN [c EXCEPT !.error = "Invalid external request UUID"]
          ELSE [c EXCEPT !.calls = << <<"FinishedExternalRequest",
                                        obj[p].key.version_id,
                                        request_uuid.text>> >>]
  /\ UNCHANGED <<host, versionMap, obj, promises, startReqs>>

(* the strings base::Uuid::GenerateRandomV4 can produce, by their index in *)
(* TokenInputs                                                             *)
GeneratedUuids == {1, 2}

(* content::ServiceWorkerExternalRequestResult *)
ExternalRequestResults == {"kOk", "kWorkerNotRunning", "kBadRequestId"}

(* base::Uuid::AsLowercaseString *)
AsLowercaseString(uuid) == uuid.text

(* `ok' set whatever the host answered *)
ExternalRequestOkAlways(start_result) == TRUE

(* start_result == content::ServiceWorkerExternalRequestResult::kOk *)
ExternalRequestOk(start_result) == start_result = "kOk"

(* ServiceWorkerMain::StartExternalRequest; u is the uuid GenerateRandomV4 *)
(* draws, start_result the answer of StartingExternalRequest               *)
StartExternalRequest(p, has_timeout, u, start_result) ==
  /\ p \in Heap
  /\ LET request_uuid == [is_valid |-> TRUE, text |-> TokenInputs[u]]
         timeout_type == IF has_timeout THEN "kDefault"
                                        ELSE "kDoesNotTimeout"
         c == [NoCall EXCEPT !.op = "StartExternalRequest", !.proxy = p]
     IN last' =
          IF IsDestroyed(obj, p)
          THEN [c EXCEPT !.error = "ServiceWorkerMain is destroyed"]
          ELSE [c EXCEPT
                  !.calls = << <<"StartingExternalRequest",
                                 obj[p].key.version_id, timeout_type,
                                 request_uuid.text>> >>,
                  !.ret = [id |-> AsLowercaseString(request_uuid),
                           ok |-> ExternalRequestOk(start_result)]]
  /\ UNCHANGED <<host, versionMap, obj, promises, startReqs>>

(* The dereference of an empty version_info_ is undefined: the process     *)
(* either dies there or goes on with an indeterminate value.               *)
NullDereferenceOutcomes == {"crash", "continue"}

(* the process died on a null dereference *)
Crashed == last.error = "null dereference"

(* the `scope' property: ServiceWorkerMain::ScopeURL *)
Scope(p) ==
  /\ p \in Heap
  /\ last' = IF ~IsDestroyed(obj, p) /\ obj[p].version_info = NullInfo
             THEN [NoCall EXCEPT !.op = "scope", !.proxy = p,
                                 !.error = "null dereference"]
             ELSE [NoCall EXCEPT !.op = "scope", !.proxy = p,
                                 !.ret = ScopeURL(obj, p)]
  /\ UNCHANGED <<host, versionMap, obj, promises, startReqs>>

(* ServiceWorkerMain::StopWorker: GetStorageKey() dereferences             *)
(* version_info_ with no test of version_destroyed_                        *)
StopWorker(p, ub) ==
  /\ p \in Heap
  /\ LET c == [NoCall EXCEPT !.op = "StopWorker", !.proxy = p]
     IN last' =
          IF obj[p].version_info # NullInfo
          THEN [c EXCEPT !.calls = << <<"StopAllServiceWorkersForStorageKey",
                                        GetStorageKey(obj, p)>> >>]
          ELSE IF ub = "crash"
          THEN [c EXCEPT !.error = "null dereference"]
          ELSE [c EXCEPT !.calls = << <<"StopAllServiceWorkersForStorageKey",
                                        "indeterminate">> >>]
  /\ UNCHANGED <<host, versionMap, obj, promises, startReqs>>

(* the counts CountExternalRequestsForTest can answer *)
ExternalRequestCounts == {0, 1}

(* ServiceWorkerMain::CountExternalRequests; n is the host's answer *)
CountExternalRequests(p, ub, n) ==
  /\ p \in Heap
  /\ LET c == [NoCall EXCEPT !.op = "CountExternalRequests", !.proxy = p]
     IN last' =
          IF obj[p].version_info # NullInfo
          THEN [c EXCEPT !.ret = n,
                         !.calls = << <<"CountExternalRequestsForTest",
                                        GetStorageKey(obj, p)>> >>]
          ELSE IF ub = "crash"
          THEN [c EXCEPT !.error = "null dereference"]
          ELSE [c EXCEPT !.ret = n,
                         !.calls = << <<"CountExternalRequestsForTest",
                                        "indeterminate">> >>]
  /\ UNCHANGED <<host, versionMap, obj, promises, startReqs>>

Next ==
  \/ \E k \in ServiceWorkerKey : HostAddLiveVersion(k)
  \/ \E k \in ServiceWorkerKey : HostRemoveLiveVersion(k)
  \/ \E k \in ServiceWorkerKey, s \in {"stopped", "starting", "running"} :
        HostSetRunningStatus(k, s)
  \/ \E k \in ServiceWorkerKey : HostSetRedundant(k)
  \/ \E k \in ServiceWorkerKey : From(k)
  \/ \E k \in ServiceWorkerKey : FromVersionID(k)
  \/ \E p \in ProxyIds : OnRunningStatusChanged(p)
  \/ \E p \in ProxyIds : OnVersionRedundant(p)
  \/ \E p \in ProxyIds : Finalize(p)
  \/ \E p \in ProxyIds, serializable \in BOOLEAN : Send(p, serializable)
  \/ \E p \in ProxyIds : StartWorker(p)
  \/ \E p \in ProxyIds, ok \in BOOLEAN : DidStartWorker(p, ok)

Spec == Init /\ [][Next]_vars

(* The external-request bookkeeping reads only the destroyed flag and the  *)
(* version id; it is followed together with the operations that set them.  *)
NextExternalRequest ==
  \/ \E k \in ServiceWorkerKey : HostAddLiveVersion(k)
  \/ \E k \in ServiceWorkerKey : HostRemoveLiveVersion(k)
  \/ \E k \in ServiceWorkerKey : HostSetRedundant(k)
  \/ \E k \in ServiceWorkerKey : From(k)
  \/ \E p \in ProxyIds : OnRunningStatusChanged(p)
  \/ \E p \in ProxyIds : OnVersionRedundant(p)
  \/ \E p \in ProxyIds : Finalize(p)
  \/ \E p \in ProxyIds, i \in 1..Len(TokenInputs) : FinishExternalRequest(p, i)
  \/ \E p \in ProxyIds, has_timeout \in BOOLEAN, u \in GeneratedUuids,
        start_result \in ExternalRequestResults :
        StartExternalRequest(p, has_timeout, u, start_result)

SpecExternalRequest == Init /\ [][NextExternalRequest]_vars

(* The operations that read the storage key, with the lifecycle operations *)
(* that set and clear version_info_; nothing runs once the process died.   *)
NextStorageKey ==
  \/ \E k \in ServiceWorkerKey : ~Crashed /\ HostAddLiveVersion(k)
  \/ \E k \in ServiceWorkerKey : ~Crashed /\ HostRemoveLiveVersion(k)
  \/ \E k \in ServiceWorkerKey : ~Crashed /\ HostSetRedundant(k)
  \/ \E k \in ServiceWorkerKey : ~Crashed /\ From(k)
  \/ \E p \in ProxyIds : ~Crashed /\ OnRunningStatusChanged(p)
  \/ \E p \in ProxyIds : ~Crashed /\ OnVersionRedundant(p)
  \/ \E p \in ProxyIds : ~Crashed /\ Finalize(p)
  \/ \E p \in ProxyIds : ~Crashed /\ Scope(p)
  \/ \E p \in ProxyIds : ~Crashed /\ StartWorker(p)
  \/ \E p \in ProxyIds, ub \in NullDereferenceOutcomes :
        ~Crashed /\ StopWorker(p, ub)
  \/ \E p \in ProxyIds, ub \in NullDereferenceOutcomes,
        n \in ExternalRequestCounts :
        ~Crashed /\ CountExternalRequests(p, ub, n)

SpecStorageKey == Init /\ [][NextStorageKey]_vars

(* ------------------------------ claims --------------------------------- *)
NonDestroyed(p) == p \in Heap /\ ~obj[p].version_destroyed
NonDestroyedWithKey(k) == {p \in ProxyIds : NonDestroyed(p) /\ obj[p].key = k}
Forwarded(c) == \E i \in 1..Len(c.calls) : c.calls[i][1] = "Message"
Settled(f) == promises[f] \notin {"unused", "pending"}

(* C1: in every reachable state the Registry holds an entry for a key if   *)
(* and only if a non-destroyed proxy with that key exists, the entry       *)
(* refers to that proxy, and there is at most one non-destroyed proxy per  *)
(* key.                                                                    *)
C1_RegistryMatchesNonDestroyed ==
  \A k \in ServiceWorkerKey :
    /\ Cardinality(NonDestroyedWithKey(k)) <= 1
    /\ versionMap[k] # NullProxy <=> NonDestroyedWithKey(k) # {}
    /\ versionMap[k] # NullProxy => versionMap[k] \in NonDestroyedWithKey(k)

C3_DestroyedNeverReturned ==
  /\ [](\A k \in ServiceWorkerKey :
          versionMap[k] # NullProxy => NonDestroyed(versionMap[k]))
  /\ []((last.op \in {"From", "FromVersionID"} /\ last.ret # NullProxy)
          => NonDestroyed(last.ret))
  /\ [][\A p \in ProxyIds :
          (p \in Heap /\ ~obj[p].version_destroyed /\ obj'[p].version_destroyed)
            => versionMap'[obj[p].key] = NullProxy]_vars
  /\ [][\A k \in ServiceWorkerKey :
          (From(k) /\ last'.ret # NullProxy /\ obj[last'.ret].alloc = "free")
            => host[k].live /\ ~host[k].redundant]_vars

(* From made a second proxy for a key whose first proxy is destroyed *)
C3_Witness ==
  /\ last.op = "From" /\ last.ret # NullProxy /\ last.calls # <<>>
  /\ \E q \in Heap : /\ q # last.ret
                     /\ obj[q].version_destroyed
                     /\ obj[q].key = obj[last.ret].key
                     /\ versionMap[obj[q].key] = last.ret

(* C4: From with no Registry entry for the key and no live version, or a   *)
(* redundant live version, returns nothing and changes neither the         *)
(* Registry nor any proxy.                                                 *)
C4_FromNothingWhenNotLive ==
  [][\A k \in ServiceWorkerKey :
       (/\ versionMap[k] = NullProxy
        /\ ~host[k].live \/ host[k].redundant
        /\ From(k)) =>
          /\ last'.ret = NullProxy
          /\ obj' = obj /\ versionMap' = versionMap]_vars

(* From returned nothing for a live but redundant version *)
C4_Witness ==
  /\ last.op = "From" /\ last.ret = NullProxy
  /\ \E k \in ServiceWorkerKey :
       /\ last.calls = << <<"GetLiveVersion", k>> >>
       /\ host[k].live /\ host[k].redundant /\ versionMap[k] = NullProxy

(* C5: StartWorker on a non-destroyed proxy whose start is in flight       *)
(* returns the future of that start and makes no host call; each in-flight *)
(* future has exactly one host request behind it; a settled future keeps   *)
(* its outcome.                                                            *)
C5_StartWorkerCoalesced ==
  /\ [][\A p \in ProxyIds :
          (/\ NonDestroyed(p) /\ obj[p].start_worker_promise # NullPromise
           /\ StartWorker(p)) =>
             /\ last'.ret = obj[p].start_worker_promise
             /\ last'.calls = <<>>
             /\ startReqs' = startReqs /\ promises' = promises
             /\ obj' = obj]_vars
  /\ [](\A p \in Heap :
          obj[p].start_worker_promise # NullPromise =>
            /\ startReqs[p] = 1
            /\ promises[obj[p].start_worker_promise] = "pending")
  /\ [][\A f \in PromiseIds : Settled(f) => promises'[f] = promises[f]]_vars

(* a second caller got the future that is still pending *)
C5_Witness ==
  /\ last.op = "StartWorker" /\ last.calls = <<>>
  /\ NonDestroyed(last.proxy)
  /\ last.ret = obj[last.proxy].start_worker_promise
  /\ promises[last.ret] = "pending"
  /\ startReqs[last.proxy] = 1

(* C6: StartWorker on a destroyed proxy returns a new future that is       *)
(* already rejected with "ServiceWorkerMain is destroyed", makes no host   *)
(* call, and leaves start_worker_promise_ as it was, also when an earlier  *)
(* start is in flight.                                                     *)
C6_StartWorkerDestroyed ==
  [][\A p \in ProxyIds :
       (p \in Heap /\ obj[p].version_destroyed /\ StartWorker(p)) =>
          /\ last'.ret # NullPromise
          /\ promises[last'.ret] = "unused"
          /\ promises'[last'.ret] = "ServiceWorkerMain is destroyed"
          /\ last'.ret # obj[p].start_worker_promise
          /\ last'.calls = <<>>
          /\ startReqs' = startReqs
          /\ obj' = obj]_vars

(* the destroyed proxy still has its earlier start in flight *)
C6_Witness ==
  /\ last.op = "StartWorker" /\ last.proxy \in Heap
  /\ obj[last.proxy].version_destroyed
  /\ obj[last.proxy].start_worker_promise # NullPromise
  /\ promises[obj[last.proxy].start_worker_promise] = "pending"
  /\ promises[last.ret] = "ServiceWorkerMain is destroyed"

(* C7: Send on a destroyed proxy forwards no message to the transport and  *)
(* binds no channel, also when the channel was bound before the destroy.   *)
C7_SendOnDestroyedNoOp ==
  [][\A p \in ProxyIds, serializable \in BOOLEAN :
       (p \in Heap /\ obj[p].version_destroyed /\ Send(p, serializable)) =>
          /\ ~Forwarded(last')
          /\ obj'[p].remote = obj[p].remote]_vars

C9_DestroyIdempotent ==
  [][\A p \in ProxyIds :
       (/\ p \in Heap /\ obj[p].version_destroyed
        /\ OnVersionRedundant(p) \/ OnRunningStatusChanged(p) \/ Finalize(p))
        => /\ versionMap' = versionMap
           /\ \A q \in ProxyIds :
                /\ obj'[q].pinned = obj[q].pinned
                /\ obj'[q].version_info = obj[q].version_info
                /\ obj'[q].version_destroyed = obj[q].version_destroyed]_vars

(* the strings of TokenInputs that are lowercase canonical UUIDs *)
CanonicalTokenInputs == {1, 2}

(* C10: FinishExternalRequest throws "ServiceWorkerMain is destroyed" on a *)
(* destroyed proxy for every token, throws "Invalid external request UUID" *)
(* on a non-destroyed proxy for a token that is not a lowercase canonical  *)
(* UUID, both without a host call, and otherwise makes exactly one host    *)
(* call, FinishedExternalRequest(version_id_, token).                      *)
C10_FinishExternalRequest ==
  [][\A p \in ProxyIds, i \in 1..Len(TokenInputs) :
       (p \in Heap /\ FinishExternalRequest(p, i)) =>
          IF obj[p].version_destroyed
          THEN /\ last'.error = "ServiceWorkerMain is destroyed"
               /\ last'.calls = <<>>
          ELSE IF i \notin CanonicalTokenInputs
          THEN /\ last'.error = "Invalid external request UUID"
               /\ last'.calls = <<>>
          ELSE /\ last'.error = "none"
               /\ last'.calls = << <<"FinishedExternalRequest",
                                     obj[p].key.version_id,
                                     TokenInputs[i]>> >>]_vars

(* a valid token finished on a destroyed proxy *)
C10_Witness ==
  /\ last.op = "FinishExternalRequest"
  /\ last.ret \in CanonicalTokenInputs
  /\ last.proxy \in Heap /\ obj[last.proxy].version_destroyed
  /\ last.error = "ServiceWorkerMain is destroyed"

(* C11: StartExternalRequest on a destroyed proxy throws                   *)
(* "ServiceWorkerMain is destroyed", returns no token and makes no host    *)
(* call; on a non-destroyed proxy it makes exactly one host call,          *)
(* StartingExternalRequest with version_id_ and the generated token,       *)
(* returns that token with ok true exactly when the host answered kOk,     *)
(* throws nothing, and changes neither the proxy nor the Registry.         *)
C11_StartExternalRequest ==
  [][\A p \in ProxyIds, has_timeout \in BOOLEAN, u \in GeneratedUuids,
        start_result \in ExternalRequestResults :
       (p \in Heap /\ StartExternalRequest(p, has_timeout, u, start_result)) =>
          /\ obj' = obj /\ versionMap' = versionMap
          /\ IF obj[p].version_destroyed
             THEN /\ last'.error = "ServiceWorkerMain is destroyed"
                  /\ last'.calls = <<>>
                  /\ last'.ret = 0
             ELSE /\ last'.error = "none"
                  /\ last'.calls =
                       << <<"StartingExternalRequest", obj[p].key.version_id,
                            IF has_timeout THEN "kDefault"
                                           ELSE "kDoesNotTimeout",
                            TokenInputs[u]>> >>
                  /\ last'.ret = [id |-> TokenInputs[u],
                                  ok |-> (start_result = "kOk")]]_vars

(* the host rejected the registration: ok is false, nothing is thrown *)
C11_Witness ==
  /\ last.op = "StartExternalRequest"
  /\ NonDestroyed(last.proxy)
  /\ last.error = "none"
  /\ last.ret.ok = FALSE
  /\ last.ret.id \in {TokenInputs[u] : u \in GeneratedUuids}

(* C12: OnVersionRedundant destroys the proxy whatever the host's live,    *)
(* starting or running state: right after it IsDestroyed() is true, scope  *)
(* is the empty URL, no Registry entry refers to the proxy and the proxy   *)
(* is not pinned.                                                          *)
C12_OnVersionRedundantDestroys ==
  [][\A p \in ProxyIds :
       (p \in Heap /\ OnVersionRedundant(p)) =>
          /\ obj'[p].version_destroyed
          /\ ScopeURL(obj', p) = 0
          /\ \A k \in ServiceWorkerKey : versionMap'[k] # p
          /\ ~obj'[p].pinned]_vars

(* the only proxy was destroyed by the notification while the host still  *)
(* has the version live and running                                       *)
C12_Witness ==
  /\ last.op = "OnVersionRedundant"
  /\ \E p \in Heap :
       /\ Heap = {p}
       /\ obj[p].version_destroyed /\ ~obj[p].pinned
       /\ versionMap[obj[p].key] = NullProxy
       /\ host[obj[p].key].live /\ host[obj[p].key].status = "running"

(* C13: every public operation invoked on a destroyed proxy (Send,         *)
(* StartWorker, StopWorker, StartExternalRequest, FinishExternalRequest,   *)
(* CountExternalRequests, scope) makes no host call and does not           *)
(* dereference the cleared version_info_.                                  *)
C13_DestroyedOperationsHarmless ==
  [][\A p \in ProxyIds :
       (/\ p \in Heap /\ obj[p].version_destroyed
        /\ \/ \E serializable \in BOOLEAN : Send(p, serializable)
           \/ StartWorker(p)
           \/ \E ub \in NullDereferenceOutcomes : StopWorker(p, ub)
           \/ \E has_timeout \in BOOLEAN, u \in GeneratedUuids,
                 start_result \in ExternalRequestResults :
                 StartExternalRequest(p, has_timeout, u, start_result)
           \/ \E i \in 1..Len(TokenInputs) : FinishExternalRequest(p, i)
           \/ \E ub \in NullDereferenceOutcomes, n \in ExternalRequestCounts :
                 CountExternalRequests(p, ub, n)
           \/ Scope(p))
        => /\ last'.calls = <<>>
           /\ last'.error # "null dereference"]_vars

(* C14: once a proxy is destroyed it stays destroyed, with version_info_   *)
(* empty and no Registry entry referring to it, through every later        *)
(* operation, also an OnRunningStatusChanged delivered when the host can   *)
(* resolve the same version id again.                                      *)
C14_DestroyedIsMonotonic ==
  /\ [][\A p \in ProxyIds :
          obj[p].version_destroyed => obj'[p].version_destroyed]_vars
  /\ [](\A p \in ProxyIds :
          obj[p].version_destroyed =>
            /\ obj[p].version_info = NullInfo
            /\ \A k \in ServiceWorkerKey : versionMap[k] # p)

(* OnRunningStatusChanged reached the only proxy, which is destroyed,     *)
(* while the host has its version live again                              *)
C14_Witness ==
  /\ last.op = "OnRunningStatusChanged"
  /\ \E p \in Heap :
       /\ Heap = {p}
       /\ obj[p].version_destroyed
       /\ GetLiveVersionInfo(host, obj[p].key) # NullInfo
       /\ ~host[obj[p].key].redundant

(* C15: every future StartWorker returned on a non-destroyed proxy is      *)
(* settled once the host has delivered the outcome of its start request,   *)
(* also when the proxy was destroyed, unpinned and finalized while the     *)
(* start was in flight: when no start request is outstanding, no future    *)
(* is pending.                                                             *)
C15_SettledOnceDelivered ==
  (\A p \in ProxyIds : startReqs[p] = 0) =>
    \A f \in PromiseIds : promises[f] # "pending"

(* C16: on every proxy that is not finalized start_worker_promise_ is set  *)
(* exactly when one StartWorkerForScope request of that proxy has no       *)
(* delivered outcome, and no proxy has more than one such request; a       *)
(* callback never runs on a proxy whose start_worker_promise_ is empty;    *)
(* StartWorker on a non-destroyed proxy with the slot empty makes one new  *)
(* host request and returns a new pending future.                          *)
C16_OneStartInFlight ==
  /\ [](\A p \in ProxyIds :
          /\ startReqs[p] <= 1
          /\ p \in Heap =>
               (obj[p].start_worker_promise # NullPromise <=> startReqs[p] = 1))
  /\ [][\A p \in ProxyIds, ok \in BOOLEAN :
          (p \in Heap /\ DidStartWorker(p, ok)) =>
             obj[p].start_worker_promise # NullPromise]_vars
  /\ [][\A p \in ProxyIds :
          (/\ NonDestroyed(p) /\ obj[p].start_worker_promise = NullPromise
           /\ StartWorker(p)) =>
             /\ startReqs[p] = 0 /\ startReqs'[p] = 1
             /\ last'.ret # NullPromise
             /\ promises[last'.ret] = "unused"
             /\ promises'[last'.ret] = "pending"
             /\ obj'[p].start_worker_promise = last'.ret
             /\ Len(last'.calls) = 1
             /\ last'.calls[1][1] = "StartWorkerForScope"]_vars

(* a start issued after an earlier start of the same proxy was resolved *)
C16_Witness ==
  /\ last.op = "StartWorker" /\ last.calls # <<>>
  /\ NonDestroyed(last.proxy)
  /\ Heap = {last.proxy}
  /\ obj[last.proxy].start_worker_promise = last.ret
  /\ promises[last.ret] = "pending"
  /\ \E f \in PromiseIds : f # last.ret /\ promises[f] = "resolved"

(* C17: OnRunningStatusChanged on a non-destroyed proxy destroys it when   *)
(* the host no longer resolves live info for its version id, and otherwise *)
(* leaves it non-destroyed, registered and pinned with version_info_ equal *)
(* to the host's current info; start_worker_promise_ is never changed.     *)
C17_StatusChangedRefreshes ==
  [][\A p \in ProxyIds :
       (NonDestroyed(p) /\ OnRunningStatusChanged(p)) =>
          /\ obj'[p].start_worker_promise = obj[p].start_worker_promise
          /\ IF GetLiveVersionInfo(host, obj[p].key) = NullInfo
             THEN obj'[p].version_destroyed
             ELSE /\ ~obj'[p].version_destroyed
                  /\ versionMap'[obj[p].key] = p
                  /\ obj'[p].pinned
                  /\ obj'[p].version_info =
                       GetLiveVersionInfo(host, obj[p].key)]_vars

(* remote_ becomes bound only in a Send made while the host reports the    *)
(* worker running                                                          *)
BoundOnlyBySendWhileRunning ==
  \A p \in ProxyIds :
    (p \in Heap /\ ~obj[p].remote /\ obj'[p].remote) =>
       /\ last'.op = "Send" /\ last'.proxy = p
       /\ host[obj[p].key].live /\ host[obj[p].key].status = "running"

(* right after OnRunningStatusChanged remote_ is bound only if the host    *)
(* reports the worker starting or running                                  *)
BoundAfterStatusChangeOnlyIfActive ==
  \A p \in ProxyIds :
    (p \in Heap /\ OnRunningStatusChanged(p) /\ obj'[p].remote) =>
       /\ host[obj[p].key].live
       /\ host[obj[p].key].status \in {"starting", "running"}

(* C18 as stated: the channel is bound only by a send made while the       *)
(* worker runs, is bound after OnRunningStatusChanged only if the worker   *)
(* is starting or running, and an unbound channel is bound by the next     *)
(* send made while the worker runs.                                        *)
C18_ReboundByNextSend ==
  /\ [][BoundOnlyBySendWhileRunning]_vars
  /\ [][BoundAfterStatusChangeOnlyIfActive]_vars
  /\ [][\A p \in ProxyIds, serializable \in BOOLEAN :
          (/\ p \in Heap /\ ~obj[p].remote
           /\ host[obj[p].key].live /\ host[obj[p].key].status = "running"
           /\ Send(p, serializable)) => obj'[p].remote]_vars

(* C18 amended: the same, with the unbound channel bound by the next send  *)
(* of a serializable payload made while the worker runs.                   *)
C18_ReboundByNextSerializableSend ==
  /\ [][BoundOnlyBySendWhileRunning]_vars
  /\ [][BoundAfterStatusChangeOnlyIfActive]_vars
  /\ [][\A p \in ProxyIds :
          (/\ p \in Heap /\ ~obj[p].remote
           /\ host[obj[p].key].live /\ host[obj[p].key].status = "running"
           /\ Send(p, TRUE)) =>
             /\ obj'[p].remote
             /\ Forwarded(last')]_vars

(* a send made while the worker runs has just bound the channel *)
C18_Witness ==
  /\ last.op = "Send" /\ last.error = "none"
  /\ NonDestroyed(last.proxy)
  /\ obj[last.proxy].remote
  /\ \E i \in 1..Len(last.calls) :
       last.calls[i][1] = "GetRemoteAssociatedInterfaces"
  /\ host[obj[last.proxy].key].status = "running"

(* C19: a proxy is pinned exactly when it is not destroyed; only destroyed *)
(* proxies are finalized, and no registry entry refers to a finalized      *)
(* proxy.                                                                  *)
C19_PinnedIffNotDestroyed ==
  /\ [](\A p \in Heap : obj[p].pinned <=> ~obj[p].version_destroyed)
  /\ [](\A k \in ServiceWorkerKey :
          versionMap[k] # NullProxy => versionMap[k] \in Heap)
  /\ [][\A p \in ProxyIds : Finalize(p) => obj[p].version_destroyed]_vars

(* find_or_create has returned a new pinned proxy while an earlier proxy,  *)
(* destroyed and unpinned, is still on the heap                            *)
C19_Witness ==
  /\ last.op = "From" /\ last.ret # NullProxy
  /\ NonDestroyed(last.ret) /\ obj[last.ret].pinned
  /\ \E q \in Heap : obj[q].version_destroyed /\ ~obj[q].pinned

(* C20: version_info_ is empty exactly when the proxy is destroyed; scope  *)
(* and StartWorker on a non-destroyed proxy read the cached scope, and     *)
(* scope on a destroyed proxy is the empty URL.                            *)
C20_InfoAbsentIffDestroyed ==
  /\ [](\A p \in Allocated :
          (obj[p].version_info = NullInfo) <=> obj[p].version_destroyed)
  /\ [][\A p \in ProxyIds :
          (NonDestroyed(p) /\ Scope(p)) =>
             /\ last'.error = "none"
             /\ obj[p].version_info # NullInfo
             /\ last'.ret = obj[p].version_info[1].scope]_vars
  /\ [][\A p \in ProxyIds :
          (p \in Heap /\ obj[p].version_destroyed /\ Scope(p)) =>
             /\ last'.error = "none"
             /\ last'.ret = 0]_vars
  /\ [][\A p \in ProxyIds :
          (/\ NonDestroyed(p)
           /\ obj[p].start_worker_promise = NullPromise
           /\ StartWorker(p)) =>
             /\ obj[p].version_info # NullInfo
             /\ last'.calls = << <<"StartWorkerForScope",
                                   obj[p].version_info[1].scope,
                                   obj[p].version_info[1].scope>> >>]_vars

(* scope has just been read as empty on a destroyed proxy while a          *)
(* non-destroyed proxy holds its snapshot                                  *)
C20_Witness ==
  /\ last.op = "scope" /\ last.error = "none"
  /\ obj[last.proxy].version_destroyed
  /\ obj[last.proxy].version_info = NullInfo
  /\ last.ret = 0
  /\ \E q \in Heap : /\ ~obj[q].version_destroyed
                     /\ obj[q].version_info # NullInfo

=============================================================================
